---- MODULE Spec2Model ----
(***************************************************************************)
(* Persona / emotion state engine of Aminder_backend                       *)
(* (src/modules/personas/personal.py).                                     *)
(*                                                                         *)
(* Python floats are modelled as a binary floating-point format of reduced *)
(* width: a value is an integer number of units of 2^-LgOne (the smallest  *)
(* subnormal), a representable value has at most Prec significant bits,    *)
(* and every arithmetic result is rounded to the nearest representable     *)
(* value, ties to even, exactly as IEEE-754 double arithmetic does with    *)
(* 53 bits.                                                                *)
(***************************************************************************)
EXTENDS Integers, Sequences, FiniteSets, TLC

\* ------------------------------------------------------------------------
\* Bounds of the model
\* ------------------------------------------------------------------------
Prec == 2        \* significant bits of the reduced float format
LgOne == 3       \* 1.0 is 2^LgOne units
MaxTextLen == 4  \* longest text (in tokens) given to the extractor

\* ------------------------------------------------------------------------
\* Reduced-width floating point
\* ------------------------------------------------------------------------
RECURSIVE Pow2(_)
Pow2(n) == IF n <= 0 THEN 1 ELSE 2 * Pow2(n - 1)

One == Pow2(LgOne)
Half == One \div 2
\* decay is followed only while every field stays within this magnitude
MaxMag == 2 * One

Abs(x) == IF x < 0 THEN -x ELSE x

RECURSIVE BitLen(_)
BitLen(n) == IF n <= 0 THEN 0 ELSE 1 + BitLen(n \div 2)

\* spacing of the representable values around the non-negative integer q
Ulp(q) == IF q < Pow2(Prec) THEN 1 ELSE Pow2(BitLen(q) - Prec)

\* nearest representable value to num/den (num >= 0, den > 0), ties to even
RoundPos(num, den) ==
    LET q    == num \div den
        step == Ulp(q)
        lo   == (q \div step) * step
        hi   == lo + step
        twice == 2 * (num - lo * den)
    IN  IF twice < step * den THEN lo
        ELSE IF twice > step * den THEN hi
        ELSE IF (lo \div step) % 2 = 0 THEN lo ELSE hi

Fl(num, den) == IF num >= 0 THEN RoundPos(num, den) ELSE -RoundPos(-num, den)

Representable(n) == Fl(n, 1) = n
Floats == {n \in (-MaxMag)..MaxMag : Representable(n)}

FAdd(a, b) == Fl(a + b, 1)
FSub(a, b) == Fl(a - b, 1)
FMul(a, b) == Fl(a * b, One)

\* Python's builtin min(a, b) / max(a, b) on two arguments
PyMin(a, b) == IF b < a THEN b ELSE a
PyMax(a, b) == IF b > a THEN b ELSE a

\* ------------------------------------------------------------------------
\* Text and JSON
\*
\* A text is a sequence of tokens, the units the extractor and the JSON
\* parser look at: the four brackets, comma, colon, a number literal, a
\* string literal, the literal null, a prose word (no bracket, not JSON), the
\* fence markers (three backticks followed by json, and three backticks
\* alone), and a run of '[' deeper than the interpreter's
\* recursion limit.  White space between tokens is not represented.
\* ------------------------------------------------------------------------
Tok(k) == [k |-> k, s |-> "", n |-> 0]
NumTok(n) == [k |-> "num", s |-> "", n |-> n]
StrTok(s) == [k |-> "str", s |-> s, n |-> 0]
LBRACKET == Tok("[")
RBRACKET == Tok("]")
LBRACE == Tok("{")
RBRACE == Tok("}")
COMMA == Tok(",")
COLON == Tok(":")
NULL == Tok("null")
WORD == Tok("word")
FENCE_JSON == Tok("fence_json")
FENCE == Tok("fence")
DEEP == Tok("[[[[")

\* Python values produced by json.loads
PyNone == [t |-> "None", n |-> 0, s |-> "", items |-> <<>>]
PyNum(n) == [t |-> "num", n |-> n, s |-> "", items |-> <<>>]
PyStr(s) == [t |-> "str", n |-> 0, s |-> s, items |-> <<>>]
PyList(items) == [t |-> "list", n |-> 0, s |-> "", items |-> items]
\* a dict is the sequence of its (key, value) pairs in text order
PyDict(items) == [t |-> "dict", n |-> 0, s |-> "", items |-> items]

\* bool(v) is False
Falsy(v) == \/ v.t = "None"
            \/ (v.t = "num" /\ v.n = 0)
            \/ (v.t = "str" /\ v.s = "")
            \/ (v.t \in {"list", "dict"} /\ v.items = <<>>)

RECURSIVE DictGetFrom(_, _, _, _)
DictGetFrom(items, key, default, i) ==
    IF i = 0 THEN default
    ELSE IF items[i].key = key THEN items[i].val
    ELSE DictGetFrom(items, key, default, i - 1)

\* d.get(key, default); a repeated key keeps its last value
DictGet(d, key, default) == DictGetFrom(d.items, key, default, Len(d.items))

ParseOk(v, nx) == [st |-> "ok", v |-> v, nx |-> nx]
ParseErr == [st |-> "JSONDecodeError", v |-> PyNone, nx |-> 0]
ParseDeep == [st |-> "RecursionError", v |-> PyNone, nx |-> 0]

RECURSIVE ParseValue(_, _)
RECURSIVE ParseItems(_, _, _)
RECURSIVE ParseMembers(_, _, _)

\* one JSON value starting at token i (1-based); nx is the token after it
ParseValue(toks, i) ==
    IF i > Len(toks) THEN ParseErr
    ELSE LET k == toks[i].k IN
         IF k = "num" THEN ParseOk(PyNum(toks[i].n), i + 1)
         ELSE IF k = "str" THEN ParseOk(PyStr(toks[i].s), i + 1)
         ELSE IF k = "null" THEN ParseOk(PyNone, i + 1)
         ELSE IF k = "[[[[" THEN ParseDeep
         ELSE IF k = "[" THEN
              IF i + 1 <= Len(toks) /\ toks[i + 1].k = "]"
              THEN ParseOk(PyList(<<>>), i + 2)
              ELSE ParseItems(toks, i + 1, <<>>)
         ELSE IF k = "{" THEN
              IF i + 1 <= Len(toks) /\ toks[i + 1].k = "}"
              THEN ParseOk(PyDict(<<>>), i + 2)
              ELSE ParseMembers(toks, i + 1, <<>>)
         ELSE ParseErr

ParseItems(toks, i, acc) ==
    LET r == ParseValue(toks, i) IN
    IF r.st # "ok" THEN r
    ELSE IF r.nx > Len(toks) THEN ParseErr
    ELSE IF toks[r.nx].k = "," THEN ParseItems(toks, r.nx + 1, Append(acc, r.v))
    ELSE IF toks[r.nx].k = "]" THEN ParseOk(PyList(Append(acc, r.v)), r.nx + 1)
    ELSE ParseErr

ParseMembers(toks, i, acc) ==
    IF i + 1 > Len(toks) \/ toks[i].k # "str" \/ toks[i + 1].k # ":" THEN ParseErr
    ELSE LET r == ParseValue(toks, i + 2) IN
         IF r.st # "ok" THEN r
         ELSE IF r.nx > Len(toks) THEN ParseErr
         ELSE LET acc2 == Append(acc, [key |-> toks[i].s, val |-> r.v]) IN
              IF toks[r.nx].k = "," THEN ParseMembers(toks, r.nx + 1, acc2)
              ELSE IF toks[r.nx].k = "}" THEN ParseOk(PyDict(acc2), r.nx + 1)
              ELSE ParseErr

\* json.loads: one value and nothing after it
json_loads(toks) ==
    LET r == ParseValue(toks, 1) IN
    IF r.st = "ok" /\ r.nx # Len(toks) + 1 THEN ParseErr ELSE r

NotFound == -1

RECURSIVE FindFrom(_, _, _)
FindFrom(text, kinds, i) ==
    IF i > Len(text) THEN NotFound
    ELSE IF text[i].k \in kinds THEN i - 1
    ELSE FindFrom(text, kinds, i + 1)

RECURSIVE RFindFrom(_, _, _)
RFindFrom(text, kinds, i) ==
    IF i < 1 THEN NotFound
    ELSE IF text[i].k \in kinds THEN i - 1
    ELSE RFindFrom(text, kinds, i - 1)

\* str.find / str.rfind of one character: 0-based position or -1
find(text, ch) ==
    FindFrom(text, IF ch = "[" THEN {"[", "[[[["} ELSE {ch}, 1)
\* (variant: the leftmost occurrence instead of the last)
rfind_leftmost(text, ch) ==
    FindFrom(text, IF ch = "[" THEN {"[", "[[[["} ELSE {ch}, 1)
rfind(text, ch) ==
    RFindFrom(text, IF ch = "[" THEN {"[", "[[[["} ELSE {ch}, Len(text))

\* re.search of the json fence pattern with re.DOTALL: the leftmost opening
\* marker (three backticks and the word json) and the first closing marker
\* (three backticks) after it, where the opening of another json fence
\* counts as closing; group(1) is what lies between them
re_search_fence(text) ==
    LET open == FindFrom(text, {"fence_json"}, 1)
        close == IF open = NotFound THEN NotFound
                 ELSE FindFrom(text, {"fence_json", "fence"}, open + 2)
    IN  IF open = NotFound \/ close = NotFound
        THEN [found |-> FALSE, group1 |-> <<>>]
        ELSE [found |-> TRUE, group1 |-> SubSeq(text, open + 2, close)]

ExtractValue(v) == [st |-> "value", v |-> v]
ExtractNone == [st |-> "value", v |-> PyNone]
ExtractRaise == [st |-> "raise", v |-> PyNone]

\* what a json.loads call inside the try block amounts to: only
\* json.JSONDecodeError is caught
LoadsInTry(toks) ==
    LET r == json_loads(toks) IN
    IF r.st = "ok" THEN ExtractValue(r.v)
    ELSE IF r.st = "JSONDecodeError" THEN ExtractNone
    ELSE ExtractRaise

_extract_json_from_text(text) ==
    LET match == re_search_fence(text)
        start_bracket == find(text, "[")
        start_brace == find(text, "{")
        bracket_first == start_bracket # NotFound
                         /\ (start_brace = NotFound \/ start_bracket < start_brace)
        start == IF bracket_first THEN start_bracket ELSE start_brace
        end == IF bracket_first THEN rfind(text, "]") ELSE rfind(text, "}")
    IN  IF match.found THEN LoadsInTry(match.group1)
        ELSE IF start_bracket = NotFound /\ start_brace = NotFound THEN ExtractNone
        ELSE IF start # NotFound /\ end # NotFound /\ end > start
             THEN LoadsInTry(SubSeq(text, start + 1, end + 1))
        ELSE ExtractNone

\* ------------------------------------------------------------------------
\* State
\* ------------------------------------------------------------------------
VARIABLES
    mood,         \* Person.mood, the EmotionalState of the persona
    lastOp,       \* the mood operation that produced the current mood
    lastRate,     \* the rate argument of the last decay call (0 otherwise)
    if_original,  \* Person.if_original
    personality,  \* Person.personality, a BigFiveProfile
    source_work,  \* Person.source_work
    keywords,     \* Person.keywords
    call,         \* the collaborator call of the last method and its outcome
    raised,       \* an exception left the last Person method
    text,         \* the argument of _extract_json_from_text
    result,       \* what _extract_json_from_text did with it
    style_examples,  \* Person.style_examples, the style corpus
    styleOp,      \* the last set_style_examples call: argument, calls, outcome
    chatOp,       \* the last generate_response call: arguments, call, outcome
    heap,         \* the BigFiveProfile and EmotionalState objects of two persons
    people,       \* the attributes of two Person instances
    pending,      \* per person, the method suspended at its await
    acting,       \* the person whose method took the last step
    provider,     \* AIProviderFactory._instance, the collaborator of every Person
    users,        \* the rows of the table users (tx: the open transaction of a row not yet committed)
    oauth_accounts,  \* the rows of the table oauth_accounts
    requests      \* per request slot, the AuthManager call in progress and its locals

moodVars == <<mood, lastOp, lastRate>>
profileVars == <<if_original, personality, source_work, keywords, call, raised>>
extractVars == <<text, result>>
styleVars == <<style_examples, styleOp>>
chatVars == <<chatOp>>
pairVars == <<heap, people, pending, acting>>
factoryVars == <<provider>>
authVars == <<users, oauth_accounts, requests>>
vars == <<mood, lastOp, lastRate, if_original, personality, source_work,
          keywords, call, raised, text, result, style_examples, styleOp,
          chatOp, heap, people, pending, acting, provider,
          users, oauth_accounts, requests>>

\* ------------------------------------------------------------------------
\* EmotionalState
\* ------------------------------------------------------------------------
EmotionalState == [pleasure |-> 0, arousal |-> 0, dominance |-> 0, energy |-> One]

BigDelta == 3 * One
DeltaSet == {-BigDelta, 0, 1, BigDelta}
RateSet == {-One, 0, 1, Fl(One, 4), Half, One, 3 * One}

\* an update that also spends energy
update_spends_energy(m, d_p, d_a, d_d) ==
    [m EXCEPT !.pleasure  = PyMax(-One, PyMin(One, FAdd(m.pleasure, d_p))),
              !.arousal   = PyMax(-One, PyMin(One, FAdd(m.arousal, d_a))),
              !.dominance = PyMax(-One, PyMin(One, FAdd(m.dominance, d_d))),
              !.energy    = FMul(m.energy, Half)]

\* an update that forgets the upper clamp
update_no_upper_clamp(m, d_p, d_a, d_d) ==
    [m EXCEPT !.pleasure  = PyMax(-One, FAdd(m.pleasure, d_p)),
              !.arousal   = PyMax(-One, FAdd(m.arousal, d_a)),
              !.dominance = PyMax(-One, FAdd(m.dominance, d_d))]

update(m, d_p, d_a, d_d) ==
    [m EXCEPT !.pleasure  = PyMax(-One, PyMin(One, FAdd(m.pleasure, d_p))),
              !.arousal   = PyMax(-One, PyMin(One, FAdd(m.arousal, d_a))),
              !.dominance = PyMax(-One, PyMin(One, FAdd(m.dominance, d_d)))]

\* a decay that scales dominance at the full rate instead of half of it
decay_full_rate(m, rate) ==
    [m EXCEPT !.pleasure  = FMul(m.pleasure, FSub(One, rate)),
              !.arousal   = FMul(m.arousal, FSub(One, rate)),
              !.dominance = FMul(m.dominance, FSub(One, rate))]

decay(m, rate) ==
    [m EXCEPT !.pleasure  = FMul(m.pleasure, FSub(One, rate)),
              !.arousal   = FMul(m.arousal, FSub(One, rate)),
              !.dominance = FMul(m.dominance, FSub(One, FMul(rate, Half)))]

P02 == Fl(One, 5)

\* a classifier that tests the Anxious rule before the Angry and Fearful rules
get_mood_label_anxious_first(m) ==
    LET P == m.pleasure
        A == m.arousal
        D == m.dominance
    IN  IF A < 0 /\ P > 0 THEN "Relaxed"
        ELSE IF A < 0 /\ P < 0 THEN "Bored/Depressed"
        ELSE IF A > 0 /\ P > Half /\ D > 0 THEN "Joyful"
        ELSE IF A > 0 /\ P > P02 /\ D > 0 THEN "Excited"
        ELSE IF A > 0 /\ P < 0 THEN "Anxious"
        ELSE IF A > 0 /\ P < -Half /\ D > 0 THEN "Angry"
        ELSE IF A > 0 /\ P < -Half /\ D < 0 THEN "Fearful"
        ELSE "Neutral"

\* the label strings of the source carry a Chinese gloss after the English
\* name ("Relaxed (...)"); the model keeps the English name
get_mood_label(m) ==
    LET P == m.pleasure
        A == m.arousal
        D == m.dominance
    IN  IF A < 0 /\ P > 0 THEN "Relaxed"
        ELSE IF A < 0 /\ P < 0 THEN "Bored/Depressed"
        ELSE IF A > 0 /\ P > Half /\ D > 0 THEN "Joyful"
        ELSE IF A > 0 /\ P > P02 /\ D > 0 THEN "Excited"
        ELSE IF A > 0 /\ P < -Half /\ D > 0 THEN "Angry"
        ELSE IF A > 0 /\ P < -Half /\ D < 0 THEN "Fearful"
        ELSE IF A > 0 /\ P < 0 THEN "Anxious"
        ELSE "Neutral"

\* ------------------------------------------------------------------------
\* BigFiveProfile and its elicitation
\* ------------------------------------------------------------------------
BigFiveProfile ==
    [openness |-> Half, conscientiousness |-> Half, extraversion |-> Half,
     agreeableness |-> Half, neuroticism |-> Half, traits |-> PyList(<<>>)]

TraitKeys == <<"openness", "conscientiousness", "extraversion",
               "agreeableness", "neuroticism">>

\* outcomes of awaiting ai_client.generate_response
Raises == [kind |-> "raise", text |-> <<>>]         \* an Exception is raised
Cancelled == [kind |-> "cancelled", text |-> <<>>]  \* asyncio.CancelledError
ReturnsNone == [kind |-> "none", text |-> <<>>]
Returns(t) == [kind |-> "text", text |-> t]

NoCall == [op |-> "none", prompt |-> "", web_search |-> FALSE, outcome |-> ReturnsNone]
NotCalled == [st |-> "not called", v |-> PyNone]

\* a clamp that forgets the upper bound
Clamp01_no_upper(v) == PyMax(0, v)

\* max(0.0, min(1.0, v))
Clamp01(v) == PyMax(0, PyMin(One, v))

\* a missing trait key read as 0.0
DefaultTrait_zero == PyNum(0)

\* the default of data.get(<trait>, 0.5)
DefaultTrait == PyNum(Half)

RECURSIVE AssignTraits(_, _, _)
\* the five scalar assignments in source order; min(1.0, v) raises TypeError
\* on a value that is not a number and the assignments made so far stay
AssignTraits(p, data, i) ==
    IF i > Len(TraitKeys) THEN [p |-> p, ok |-> TRUE]
    ELSE LET v == DictGet(data, TraitKeys[i], DefaultTrait) IN
         IF v.t # "num" THEN [p |-> p, ok |-> FALSE]
         ELSE AssignTraits([p EXCEPT ![TraitKeys[i]] = Clamp01(v.n)], data, i + 1)

Persona(p, sw, kw) == [personality |-> p, source_work |-> sw, keywords |-> kw]

\* the try block of init_big_five_profile on the persona self, given the
\* outcome of the collaborator call; every Exception is swallowed
init_big_five_profile(self, outcome) ==
    IF outcome.kind # "text" \/ outcome.text = <<>> THEN self
    ELSE LET ex == _extract_json_from_text(outcome.text) IN
         IF ex.st = "raise" THEN self
         ELSE LET data == IF Falsy(ex.v) THEN PyDict(<<>>) ELSE ex.v IN
              IF data.t # "dict" THEN self
              ELSE LET a == AssignTraits(self.personality, data, 1) IN
                   IF ~a.ok THEN [self EXCEPT !.personality = a.p]
                   ELSE Persona([a.p EXCEPT !.traits = DictGet(data, "traits", PyList(<<>>))],
                                DictGet(data, "source_work", PyList(<<>>)),
                                DictGet(data, "keywords", PyList(<<>>)))

\* the answers given to the trait elicitation: JSON objects that hold, for
\* openness and for neuroticism, no entry, a number below 0, a number in
\* range, a number above 1 or a string, and that hold some of the list keys
ScalarChoices == {"absent", "below", "inrange", "above", "string"}
ListChoices == {"none", "traits", "source_work", "keywords", "all"}

ScalarToks(c) ==
    IF c = "below" THEN <<NumTok(-Half)>>
    ELSE IF c = "inrange" THEN <<NumTok(One \div 4)>>
    ELSE IF c = "above" THEN <<NumTok(Fl(17 * One, 10))>>
    ELSE <<StrTok("high")>>

ListToks == <<LBRACKET, StrTok("a"), RBRACKET>>

Member(key, toks) == <<[key |-> key, toks |-> toks]>>

AnswerMembers(o, n, l) ==
    (IF o = "absent" THEN <<>> ELSE Member("openness", ScalarToks(o)))
    \o (IF n = "absent" THEN <<>> ELSE Member("neuroticism", ScalarToks(n)))
    \o (IF l \in {"traits", "all"} THEN Member("traits", ListToks) ELSE <<>>)
    \o (IF l \in {"source_work", "all"} THEN Member("source_work", ListToks) ELSE <<>>)
    \o (IF l \in {"keywords", "all"} THEN Member("keywords", ListToks) ELSE <<>>)

RECURSIVE MemberToks(_, _)
MemberToks(ms, i) ==
    IF i > Len(ms) THEN <<>>
    ELSE (IF i > 1 THEN <<COMMA>> ELSE <<>>)
         \o <<StrTok(ms[i].key), COLON>> \o ms[i].toks \o MemberToks(ms, i + 1)

\* the text of a JSON object with the given members
ObjectText(ms) == <<LBRACE>> \o MemberToks(ms, 1) \o <<RBRACE>>

AnswerTexts ==
    {ObjectText(AnswerMembers(o, n, l)) :
        o \in ScalarChoices, n \in ScalarChoices, l \in ListChoices}

\* answers that are no JSON object: no text, prose, prose around a list, a
\* bare number, a nesting too deep for the parser
OtherTexts == { <<>>, <<WORD, WORD>>, <<WORD, LBRACKET, NumTok(One), RBRACKET>>,
                <<FENCE_JSON, NumTok(One), FENCE>>, <<DEEP, RBRACKET>> }

ProfileOutcomes ==
    {Raises, Cancelled, ReturnsNone} \cup {Returns(t) : t \in AnswerTexts \cup OtherTexts}

InMag(m) == /\ Abs(m.pleasure) <= MaxMag
            /\ Abs(m.arousal) <= MaxMag
            /\ Abs(m.dominance) <= MaxMag

\* ------------------------------------------------------------------------
\* The style corpus and its elicitation
\*
\* A Python string that the code puts together from parts is the sequence
\* of its non-empty parts; the empty string is the empty sequence.
\* ------------------------------------------------------------------------
Str(s) == IF s = "" THEN <<>> ELSE <<s>>

\* the fixed placeholder string of Person.__init__ and set_style_examples
StylePlaceholder == <<"(no style examples yet, use the standard voice)">>

RECURSIVE JoinFrom(_, _, _)
JoinFrom(sep, strs, i) ==
    IF i > Len(strs) THEN <<>>
    ELSE (IF i > 1 THEN sep ELSE <<>>) \o strs[i] \o JoinFrom(sep, strs, i + 1)

\* sep.join(strs) on a list of strings
join(sep, strs) == JoinFrom(sep, strs, 1)

\* str.join(v) raises TypeError unless v is an iterable of strings (a
\* list of strings, a string, a dict, whose keys are strings)
JoinRaises(v) ==
    IF v.t = "list" THEN \E i \in 1..Len(v.items) : v.items[i].t # "str"
    ELSE v.t \notin {"str", "dict"}

\* the replacement field {v} of an f-string; the repr of a value that is
\* neither a string nor None is one opaque part
fstr(v) == IF v.t = "str" THEN Str(v.s)
           ELSE IF v.t = "None" THEN <<"None">>
           ELSE <<"<repr>">>

\* the appended string f"[{mood}] {dialogue} ({tone})"
FormatExample(item) ==
    <<"[">> \o fstr(DictGet(item, "mood", PyStr(""))) \o <<"] ">>
    \o fstr(DictGet(item, "dialogue", PyStr(""))) \o <<" (">>
    \o fstr(DictGet(item, "action_and_tone", PyStr(""))) \o <<")">>

\* a loop that keeps the entries without a dialogue as well
RECURSIVE formatted_examples_unfiltered(_, _)
formatted_examples_unfiltered(items, i) ==
    IF i > Len(items) THEN <<>>
    ELSE (IF items[i].t = "dict"
          THEN <<FormatExample(items[i])>> ELSE <<>>)
         \o formatted_examples_unfiltered(items, i + 1)

RECURSIVE formatted_examples(_, _)
\* the loop over data that fills formatted_examples
formatted_examples(items, i) ==
    IF i > Len(items) THEN <<>>
    ELSE (IF items[i].t = "dict" /\ ~Falsy(DictGet(items[i], "dialogue", PyStr("")))
          THEN <<FormatExample(items[i])>> ELSE <<>>)
         \o formatted_examples(items, i + 1)

\* the try block of either branch: the corpus it assigns for the outcome of
\* the collaborator call; every Exception ends in the placeholder
StyleFromOutcome(outcome) ==
    IF outcome.kind # "text" \/ outcome.text = <<>> THEN StylePlaceholder
    ELSE LET data == _extract_json_from_text(outcome.text) IN
         IF data.st = "raise" THEN StylePlaceholder
         ELSE IF Falsy(data.v) \/ data.v.t # "list" THEN StylePlaceholder
         ELSE LET fe == formatted_examples(data.v.items, 1) IN
              IF fe = <<>> THEN StylePlaceholder ELSE join(<<"; ">>, fe)

\* building character_context, before the try block of the non-original
\* branch, raises TypeError
ContextRaises(self) ==
    IF ~Falsy(self.source_work) THEN JoinRaises(self.source_work)
    ELSE ~Falsy(self.keywords) /\ JoinRaises(self.keywords)

StyleDone(self, ncalls, web_search, didRaise) ==
    [self |-> self, ncalls |-> ncalls, web_search |-> web_search, raised |-> didRaise]

\* set_style_examples on the person self: the person after it, the calls it
\* made to the collaborator, their web_search flag, whether it raised
set_style_examples(self, examples, outcome) ==
    IF Len(examples) # 0
    THEN StyleDone([self EXCEPT !.style_examples = join(<<"; ">>, examples)],
                   0, FALSE, FALSE)
    ELSE IF ~self.if_original /\ ContextRaises(self)
    THEN StyleDone(self, 0, FALSE, TRUE)
    ELSE IF outcome.kind = "cancelled"
    THEN StyleDone(self, 1, ~self.if_original, TRUE)
    ELSE StyleDone([self EXCEPT !.style_examples = StyleFromOutcome(outcome)],
                   1, ~self.if_original, FALSE)

NoStyleOp == [called |-> FALSE, examples |-> <<>>, ncalls |-> 0,
              web_search |-> FALSE, outcome |-> ReturnsNone, raised |-> FALSE]

\* the answers given to the style elicitation: JSON lists of up to
\* MaxItems entries, each a mapping with the three fields, without a
\* dialogue, with an empty dialogue, with a dialogue and a null mood only,
\* or no mapping
ItemChoices == {"full", "nodialogue", "emptydialogue", "nullmood", "notdict"}

ItemToks(c) ==
    IF c = "full"
    THEN ObjectText(Member("dialogue", <<StrTok("hi")>>)
                    \o Member("action_and_tone", <<StrTok("calm")>>)
                    \o Member("mood", <<StrTok("glad")>>))
    ELSE IF c = "nodialogue" THEN ObjectText(Member("mood", <<StrTok("glad")>>))
    ELSE IF c = "emptydialogue"
    THEN ObjectText(Member("dialogue", <<StrTok("")>>)
                    \o Member("mood", <<StrTok("glad")>>))
    ELSE IF c = "nullmood"
    THEN ObjectText(Member("dialogue", <<StrTok("yo")>>) \o Member("mood", <<NULL>>))
    ELSE <<NumTok(One)>>

RECURSIVE ItemsToks(_, _)
ItemsToks(cs, i) ==
    IF i > Len(cs) THEN <<>>
    ELSE (IF i > 1 THEN <<COMMA>> ELSE <<>>) \o ItemToks(cs[i]) \o ItemsToks(cs, i + 1)

\* the text of a JSON list with the given entries
ListText(cs) == <<LBRACKET>> \o ItemsToks(cs, 1) \o <<RBRACKET>>

MaxItems == 2

StyleAnswerTexts ==
    {ListText(cs) : cs \in UNION {[1..n -> ItemChoices] : n \in 0..MaxItems}}

\* answers that are no JSON list: no text, prose (a diagnostic error text),
\* a bare mapping, a nesting too deep for the parser; and a list inside a
\* fence and inside prose
StyleOtherTexts ==
    { <<>>, <<WORD, WORD>>, ItemToks("full"), <<DEEP, RBRACKET>>,
      <<FENCE_JSON>> \o ListText(<<"nullmood">>) \o <<FENCE>>,
      <<WORD>> \o ListText(<<"full">>) \o <<WORD>> }

StyleOutcomes ==
    {Raises, Cancelled, ReturnsNone}
    \cup {Returns(t) : t \in StyleAnswerTexts \cup StyleOtherTexts}

\* the examples arguments: lists of up to MaxExamples strings, the empty
\* string among them
ExampleStrings == {Str(""), Str("a")}
MaxExamples == 2
ExamplesArgs == UNION {[1..n -> ExampleStrings] : n \in 0..MaxExamples}

\* the answers to the trait elicitation that come before the style
\* elicitation: a source_work list of strings, a source_work list holding
\* a number, a keywords value that is a number
UntypedListToks == <<LBRACKET, NumTok(One), RBRACKET>>

StyleSetupOutcomes ==
    { Raises,
      Returns(ObjectText(Member("source_work", ListToks))),
      Returns(ObjectText(Member("source_work", UntypedListToks))),
      Returns(ObjectText(Member("keywords", <<NumTok(One)>>))) }

\* ------------------------------------------------------------------------
\* The chat turn
\* ------------------------------------------------------------------------
\* the Person instance as the methods see it
Person(orig, p, sw, kw, m, se) ==
    [if_original |-> orig, personality |-> p, source_work |-> sw,
     keywords |-> kw, mood |-> m, style_examples |-> se]

\* format(x, ".<digits>f"): x as a count of 10^-digits, rounded half to even
\* (the sign of a negative value that rounds to zero is not kept)
FormatFixed(x, digits) ==
    LET num == x * (IF digits = 1 THEN 10 ELSE 100)
        q == num \div One
        r == num % One
    IN  IF 2 * r > One \/ (2 * r = One /\ q % 2 = 1) THEN q + 1 ELSE q

\* the five scores as the prompts print them, {p.<trait>:.2f}
Scores(p) == [i \in 1..Len(TraitKeys) |-> FormatFixed(p[TraitKeys[i]], 2)]

\* the system prompt: the fixed core instruction and the trait data
set_basic_assistance_prompt(self) ==
    [block |-> "core_instruction + trait_data", scores |-> Scores(self.personality)]

SnippetLen == 50

\* the three characters appended to a truncated input
Ellipsis == <<".", ".", ".">>

\* a snippet that already truncates an input of exactly 50 characters
input_snippet_at_limit(current_user_input) ==
    IF Len(current_user_input) >= SnippetLen
    THEN SubSeq(current_user_input, 1, SnippetLen) \o Ellipsis
    ELSE current_user_input

\* current_user_input[:50] + "..." if len(current_user_input) > 50 else
\* current_user_input
input_snippet(current_user_input) ==
    IF Len(current_user_input) > SnippetLen
    THEN SubSeq(current_user_input, 1, SnippetLen) \o Ellipsis
    ELSE current_user_input

\* the reinforcement block: the mood readout and the filled thinking logic
get_reinforcement_block(self, current_user_input) ==
    [block |-> "cognitive lock",
     mood_label |-> get_mood_label(self.mood),
     P |-> FormatFixed(self.mood.pleasure, 1),
     A |-> FormatFixed(self.mood.arousal, 1),
     D |-> FormatFixed(self.mood.dominance, 1),
     user_input_snippet |-> input_snippet(current_user_input),
     scores |-> Scores(self.personality),
     style_examples |-> self.style_examples]

Message(role, content) == [role |-> role, content |-> content]

\* a loop that passes the role model on as it is
RECURSIVE lite_llm_messages_keep_model(_, _)
lite_llm_messages_keep_model(chat_history, i) ==
    IF i > Len(chat_history) THEN <<>>
    ELSE LET msg == chat_history[i] IN
         (IF msg.role = "system" THEN <<>>
          ELSE <<Message(msg.role, msg.content)>>)
         \o lite_llm_messages_keep_model(chat_history, i + 1)

RECURSIVE lite_llm_messages(_, _)
\* the loop over chat_history that fills lite_llm_messages
lite_llm_messages(chat_history, i) ==
    IF i > Len(chat_history) THEN <<>>
    ELSE LET msg == chat_history[i] IN
         (IF msg.role = "system" THEN <<>>
          ELSE IF msg.role = "model" THEN <<Message("assistant", msg.content)>>
          ELSE <<Message(msg.role, msg.content)>>)
         \o lite_llm_messages(chat_history, i + 1)

\* what a chat turn leaves: the person, the collaborator calls it made,
\* whether an exception left it
ChatDone(self, calls, didRaise) ==
    [self |-> self, calls |-> calls, raised |-> didRaise]

\* the keyword arguments of the collaborator call of a chat turn
ChatCall(self, user_input, history) ==
    [prompt |-> user_input,
     history |-> history,
     system_instruction |-> <<set_basic_assistance_prompt(self),
                              get_reinforcement_block(self, user_input)>>,
     web_search |-> FALSE]

\* a chat turn that lets a tick of the mood pass
generate_response_ticks(self, user_input, chat_history, outcome) ==
    ChatDone([self EXCEPT !.mood = decay(self.mood, Half)],
             <<ChatCall(self, user_input, lite_llm_messages(chat_history, 1))>>,
             outcome.kind \in {"raise", "cancelled"})

\* a chat turn that appends the user input to the history it sends
generate_response_appends_input(self, user_input, chat_history, outcome) ==
    ChatDone(self,
             <<ChatCall(self, user_input,
                        lite_llm_messages(chat_history, 1)
                        \o <<Message("user", user_input)>>)>>,
             outcome.kind \in {"raise", "cancelled"})

\* generate_response on the person self, given the outcome of its awaited
\* collaborator call (the awaited value is returned as it is)
generate_response(self, user_input, chat_history, outcome) ==
    ChatDone(self,
             <<ChatCall(self, user_input, lite_llm_messages(chat_history, 1))>>,
             outcome.kind \in {"raise", "cancelled"})

\* the chat inputs: user inputs around the snippet length, made of two
\* alternating characters
UserInput(n) == [i \in 1..n |-> IF i % 2 = 1 THEN "a" ELSE "b"]
InputLens == {0, 1, SnippetLen, SnippetLen + 1}
UserInputs == {UserInput(n) : n \in InputLens}

Roles == {"user", "assistant", "system", "model", "tool"}
Contents == {"c1", "c2"}
MaxHistory == 3
Messages == {Message(r, c) : r \in Roles, c \in Contents}
Histories == UNION {[1..n -> Messages] : n \in 0..MaxHistory}

ChatOutcomes == {Raises, Cancelled, ReturnsNone, Returns(<<WORD, WORD>>)}

NoChatOp == [called |-> FALSE, user_input |-> <<>>, chat_history |-> <<>>,
             calls |-> <<>>, outcome |-> ReturnsNone]

\* ------------------------------------------------------------------------
\* AIProviderFactory and its providers
\*
\* A provider is what a caller meets of it: the keyword parameters of its
\* generate_response and whether that method is a coroutine function.
\* BaseAIProvider stands for a collaborator that implements the abstract
\* method as it is declared.
\* ------------------------------------------------------------------------
NoInstance == [class |-> "None", params |-> {}, is_async |-> FALSE]
BaseAIProvider ==
    [class |-> "BaseAIProvider",
     params |-> {"prompt", "history", "system_instruction", "web_search"},
     is_async |-> TRUE]
GeminiProvider ==
    [class |-> "GeminiProvider", params |-> {"prompt", "web_search"},
     is_async |-> FALSE]
OpenAIProvider ==
    [class |-> "OpenAIProvider", params |-> {"prompt", "history"},
     is_async |-> TRUE]

\* settings.ai.provider as the configuration may spell it, and str.lower
ProviderTypes == {"gemini", "Gemini", "openai", "litellm"}
lower(s) == IF s = "Gemini" THEN "gemini" ELSE s

\* AIProviderFactory.get_provider with _instance = instance
get_provider(instance, provider_type) ==
    IF instance # NoInstance THEN [instance |-> instance, raised |-> FALSE]
    ELSE IF lower(provider_type) = "gemini"
    THEN [instance |-> GeminiProvider, raised |-> FALSE]
    ELSE IF lower(provider_type) = "openai"
    THEN [instance |-> OpenAIProvider, raised |-> FALSE]
    ELSE [instance |-> NoInstance, raised |-> TRUE]

\* what the body of a provider's generate_response gives back: Gemini the
\* response text (None when the response has none) or, its own except
\* clause having caught the failure, an error text; OpenAI a placeholder
\* text; a provider as declared anything the contract allows
ErrorText == <<WORD, WORD, WORD>>
ProviderResults(p) ==
    IF p = GeminiProvider THEN {Returns(<<WORD>>), ReturnsNone, Returns(ErrorText)}
    ELSE IF p = OpenAIProvider THEN {Returns(<<WORD, WORD>>)}
    ELSE {Raises, ReturnsNone, Returns(<<WORD>>)}

\* await p.generate_response(**kwargs) as the caller sees it: a keyword the
\* method does not have raises TypeError at the call, and so does awaiting
\* what a plain function returned; otherwise the result of the body
await_generate_response(p, kwargs, own) ==
    IF ~(kwargs \subseteq p.params) THEN Raises
    ELSE IF ~p.is_async THEN Raises
    ELSE own

\* the keywords of the collaborator calls of the trait and style
\* elicitations, and of ChatService.chat
ElicitationKwargs == {"prompt", "web_search"}
ServiceKwargs == {"prompt", "history"}

\* ------------------------------------------------------------------------
\* AuthManager: users, OAuth accounts and the requests that log in
\*
\* Every request has its own database session and so its own transaction.
\* A request runs from one await to the next in one step; other requests
\* run in between.
\* ------------------------------------------------------------------------
MaxRequests == 2   \* requests in progress at the same time
MaxAccounts == 3   \* rows of oauth_accounts
RequestIds == 1..MaxRequests

\* a row of users: email is unique, hashed_password is NULL for a user made
\* by an OAuth login; tx is 0 once the row is committed
NoPassword == "NULL"
User(id, email, hashed_password, is_active, tx) ==
    [id |-> id, email |-> email, hashed_password |-> hashed_password,
     is_active |-> is_active, tx |-> tx]
NoUser == User(0, "", NoPassword, FALSE, 0)

\* a row of oauth_accounts: no column but the id is unique
OAuthAccount(id, user_id, oauth_name, oauth_id, access_token) ==
    [id |-> id, user_id |-> user_id, oauth_name |-> oauth_name,
     oauth_id |-> oauth_id, access_token |-> access_token]
NoAccount == OAuthAccount(0, 0, "", "", "")

\* what the identity providers can report and what a client can send
MockGithubEmail == "mock_github@example.com"
MockGithubId == "123456"
MockGithubToken == "mock_github_access_token"
Emails == {"a@example.com", MockGithubEmail}
GoogleSubs == {"sub1"}
GoogleTokens == {"t1", "t2"}
Missing == ""
GoogleData ==
    [ok : {TRUE}, email : Emails \cup {Missing}, sub : GoogleSubs \cup {Missing}]
    \cup {[ok |-> FALSE, email |-> Missing, sub |-> Missing]}

\* rows other sessions can read
CommittedRows(rows) == {u \in rows : u.tx = 0}

\* Result.scalar_one_or_none()
scalar_one_or_none(rows, none) ==
    IF rows = {} THEN [raised |-> FALSE, row |-> none]
    ELSE IF Cardinality(rows) = 1
    THEN [raised |-> FALSE, row |-> CHOOSE x \in rows : TRUE]
    ELSE [raised |-> TRUE, row |-> none]

\* the locals of a request
NoRequest ==
    [pc |-> "idle", op |-> "none", email |-> "", provider |-> "", oauth_id |-> "",
     access_token |-> "", oauth_account |-> NoAccount, user |-> NoUser,
     seen |-> NoUser, wrote |-> FALSE, response |-> "none"]

\* a request that has ended: its response, the user it loaded and whether
\* it committed anything are kept
Ended(req, user, wrote, response) ==
    [NoRequest EXCEPT !.pc = "done", !.user = user, !.wrote = wrote,
                      !.response = response]

\* the end of _handle_oauth_login: no user 500, inactive user 400, else a
\* token
OAuthResponse(user) ==
    IF user = NoUser THEN "500"
    ELSE IF ~user.is_active THEN "400"
    ELSE "token"

\* the ids of new rows: a fresh uuid4, the next autoincrement value
NewUserId(rows) == Cardinality(rows) + 1
NewAccountId(rows) == Cardinality(rows) + 1

\* ------------------------------------------------------------------------
\* Two Person instances
\*
\* The objects a Person refers to and mutates in place, its BigFiveProfile
\* and its EmotionalState, live in a heap; the other attributes are
\* rebound by assignment and are kept with the person.
\* ------------------------------------------------------------------------
PersonIds == {1, 2}

\* self.personality = BigFiveProfile(): a new object for each person
ProfileRef(i) == 2 * i - 1

\* one EmotionalState object that every person refers to
MoodRef_shared(i) == 2

\* self.mood = EmotionalState(): a new object for each person
MoodRef(i) == 2 * i

NewHeap == [r \in 1..4 |-> IF r % 2 = 1 THEN BigFiveProfile ELSE EmotionalState]

\* the attributes after __init__; the first person is original, the second
\* is not
NewPerson(i) ==
    [if_original |-> (i = 1), personality |-> ProfileRef(i), mood |-> MoodRef(i),
     source_work |-> PyList(<<>>), keywords |-> PyList(<<>>),
     style_examples |-> StylePlaceholder]

\* person i as its methods see it
Deref(h, ps, i) ==
    Person(ps[i].if_original, h[ps[i].personality], ps[i].source_work,
           ps[i].keywords, h[ps[i].mood], ps[i].style_examples)

\* the heap after a method of person i has left the person as self: the
\* profile and the mood are written in place
HeapAfter(h, ps, i, self) ==
    [r \in DOMAIN h |-> IF r = ps[i].mood THEN self.mood
                        ELSE IF r = ps[i].personality THEN self.personality
                        ELSE h[r]]

\* the attributes after a method of person i has left the person as self
PeopleAfter(ps, i, self) ==
    [ps EXCEPT ![i].source_work = self.source_work,
               ![i].keywords = self.keywords,
               ![i].style_examples = self.style_examples]

NotPending == "none"

\* the inputs of the runs that go through the whole life of a persona: one
\* stimulus, one tick, one examples list, a short and a long user input,
\* one history, and for each awaited call an answer and a failure
OneDelta == BigDelta
OneRate == One
OneExamples == <<Str("a")>>
OneInput == UserInput(1)
LongInput == UserInput(SnippetLen + 1)
OneHistory == <<Message("system", "c1"), Message("model", "c2")>>
AnswerTo(op) ==
    IF op = "init_big_five_profile"
    THEN Returns(ObjectText(AnswerMembers("inrange", "absent", "all")))
    ELSE IF op = "set_style_examples" THEN Returns(ListText(<<"full">>))
    ELSE Returns(<<WORD>>)
FewOutcomes(op) == {Raises, AnswerTo(op)}

\* the methods that await the collaborator
AwaitingOps == {"init_big_five_profile", "set_style_examples", "generate_response"}

\* the person after the awaited call of its suspended method op has come
\* back with outcome
Completed(self, op, outcome) ==
    IF outcome.kind = "cancelled" THEN self
    ELSE IF op = "init_big_five_profile"
    THEN LET after == init_big_five_profile(
                          Persona(self.personality, self.source_work, self.keywords),
                          outcome)
         IN  [self EXCEPT !.personality = after.personality,
                          !.source_work = after.source_work,
                          !.keywords = after.keywords]
    ELSE IF op = "set_style_examples" THEN set_style_examples(self, <<>>, outcome).self
    ELSE generate_response(self, OneInput, OneHistory, outcome).self

\* ------------------------------------------------------------------------
\* Actions
\* ------------------------------------------------------------------------
\* Person.__init__ (the persona's kind is the caller's choice)
Init ==
    /\ mood = EmotionalState
    /\ lastOp = "init"
    /\ lastRate = 0
    /\ if_original \in BOOLEAN
    /\ personality = BigFiveProfile
    /\ source_work = PyList(<<>>)
    /\ keywords = PyList(<<>>)
    /\ call = NoCall
    /\ raised = FALSE
    /\ text = <<>>
    /\ result = NotCalled
    /\ style_examples = StylePlaceholder
    /\ styleOp = NoStyleOp
    /\ chatOp = NoChatOp
    /\ heap = NewHeap
    /\ people = [i \in PersonIds |-> NewPerson(i)]
    /\ pending = [i \in PersonIds |-> NotPending]
    /\ acting = 0
    /\ provider = BaseAIProvider
    /\ users = {}
    /\ oauth_accounts = {}
    /\ requests = [r \in RequestIds |-> NoRequest]

Update(d_p, d_a, d_d) ==
    /\ mood' = update(mood, d_p, d_a, d_d)
    /\ lastOp' = "update"
    /\ lastRate' = 0
    /\ UNCHANGED <<profileVars, extractVars, styleVars, chatVars, pairVars, factoryVars, authVars>>

Decay(rate) ==
    /\ InMag(decay(mood, rate))
    /\ mood' = decay(mood, rate)
    /\ lastOp' = "decay"
    /\ lastRate' = rate
    /\ UNCHANGED <<profileVars, extractVars, styleVars, chatVars, pairVars, factoryVars, authVars>>

MoodNext ==
    \/ \E d_p \in DeltaSet, d_a \in DeltaSet, d_d \in DeltaSet : Update(d_p, d_a, d_d)
    \/ \E rate \in RateSet : Decay(rate)

\* the mood operations on a freshly built persona; they read nothing of the
\* persona but its mood
InitMood == Init /\ if_original = FALSE

SpecMood == InitMood /\ [][MoodNext]_vars

\* await self.init_big_five_profile(description)
InitBigFiveProfile(outcome) ==
    \E after \in {IF outcome.kind = "cancelled"
                  THEN Persona(personality, source_work, keywords)
                  ELSE init_big_five_profile(Persona(personality, source_work, keywords),
                                             outcome)} :
        /\ call' = [op |-> "init_big_five_profile",
                    prompt |-> IF if_original THEN "traits from description"
                               ELSE "traits of the named character",
                    web_search |-> TRUE,
                    outcome |-> outcome]
        /\ personality' = after.personality
        /\ source_work' = after.source_work
        /\ keywords' = after.keywords
        /\ raised' = (outcome.kind = "cancelled")
        /\ UNCHANGED <<if_original, moodVars, extractVars, styleVars, chatVars, pairVars, factoryVars, authVars>>

ProfileNext == \E outcome \in ProfileOutcomes : InitBigFiveProfile(outcome)

SpecProfile == Init /\ [][ProfileNext]_vars

\* the texts given to the extractor: every token sequence up to MaxTextLen
ExtractAlphabet == {LBRACKET, RBRACKET, LBRACE, RBRACE, COMMA, NumTok(One), WORD,
                    FENCE_JSON, FENCE, DEEP}
ExtractTexts == UNION {[1..n -> ExtractAlphabet] : n \in 0..MaxTextLen}

InitExtract ==
    /\ mood = EmotionalState
    /\ lastOp = "init"
    /\ lastRate = 0
    /\ if_original = FALSE
    /\ personality = BigFiveProfile
    /\ source_work = PyList(<<>>)
    /\ keywords = PyList(<<>>)
    /\ call = NoCall
    /\ raised = FALSE
    /\ text \in ExtractTexts
    /\ result = NotCalled
    /\ style_examples = StylePlaceholder
    /\ styleOp = NoStyleOp
    /\ chatOp = NoChatOp
    /\ heap = NewHeap
    /\ people = [i \in PersonIds |-> NewPerson(i)]
    /\ pending = [i \in PersonIds |-> NotPending]
    /\ acting = 0
    /\ provider = BaseAIProvider
    /\ users = {}
    /\ oauth_accounts = {}
    /\ requests = [r \in RequestIds |-> NoRequest]

\* self._extract_json_from_text(text)
Extract ==
    /\ result = NotCalled
    /\ result' = _extract_json_from_text(text)
    /\ UNCHANGED <<text, moodVars, profileVars, styleVars, chatVars, pairVars, factoryVars, authVars>>

ExtractNext == Extract

SpecExtract == InitExtract /\ [][ExtractNext]_vars

\* the Person instance self
Self == Person(if_original, personality, source_work, keywords, mood, style_examples)

\* await self.set_style_examples(examples)
SetStyleExamples(examples, outcome) ==
    \E after \in {set_style_examples(Self, examples, outcome)} :
        /\ style_examples' = after.self.style_examples
        /\ if_original' = after.self.if_original
        /\ personality' = after.self.personality
        /\ source_work' = after.self.source_work
        /\ keywords' = after.self.keywords
        /\ mood' = after.self.mood
        /\ styleOp' = [called |-> TRUE, examples |-> examples,
                       ncalls |-> after.ncalls, web_search |-> after.web_search,
                       outcome |-> IF after.ncalls = 0 THEN ReturnsNone ELSE outcome,
                       raised |-> after.raised]
        /\ call' = IF after.ncalls = 0 THEN NoCall
                   ELSE [op |-> "set_style_examples",
                         prompt |-> IF if_original THEN "lines from the trait scores"
                                    ELSE "lines of the named character",
                         web_search |-> after.web_search,
                         outcome |-> outcome]
        /\ raised' = after.raised
        /\ UNCHANGED <<lastOp, lastRate, extractVars, chatVars, pairVars, factoryVars, authVars>>

\* any sequence of set_style_examples calls, after the trait elicitations
\* that set the provenance lists (the order in which the persona is built)
StyleNext ==
    \/ \E examples \in ExamplesArgs \ {<<>>} : SetStyleExamples(examples, ReturnsNone)
    \/ \E outcome \in StyleOutcomes : SetStyleExamples(<<>>, outcome)
    \/ /\ ~styleOp.called
       /\ \E outcome \in StyleSetupOutcomes : InitBigFiveProfile(outcome)

SpecStyle == Init /\ [][StyleNext]_vars

\* await self.generate_response(user_input, chat_history)
GenerateResponse(user_input, chat_history, outcome) ==
    \E after \in {generate_response(Self, user_input, chat_history, outcome)} :
        /\ chatOp' = [called |-> TRUE, user_input |-> user_input,
                      chat_history |-> chat_history, calls |-> after.calls,
                      outcome |-> outcome]
        /\ call' = [op |-> "generate_response", prompt |-> "the user input",
                    web_search |-> after.calls[Len(after.calls)].web_search,
                    outcome |-> outcome]
        /\ raised' = after.raised
        /\ if_original' = after.self.if_original
        /\ personality' = after.self.personality
        /\ source_work' = after.self.source_work
        /\ keywords' = after.self.keywords
        /\ mood' = after.self.mood
        /\ style_examples' = after.self.style_examples
        /\ UNCHANGED <<lastOp, lastRate, styleOp, extractVars, pairVars, factoryVars, authVars>>

\* one chat turn on a freshly built persona, for every user input and
\* history
InitChat ==
    /\ mood = EmotionalState
    /\ lastOp = "init"
    /\ lastRate = 0
    /\ if_original = FALSE
    /\ personality = BigFiveProfile
    /\ source_work = PyList(<<>>)
    /\ keywords = PyList(<<>>)
    /\ call = NoCall
    /\ raised = FALSE
    /\ text = <<>>
    /\ result = NotCalled
    /\ style_examples = StylePlaceholder
    /\ styleOp = NoStyleOp
    /\ \E u \in UserInputs, h \in Histories :
          chatOp = [NoChatOp EXCEPT !.user_input = u, !.chat_history = h]
    /\ heap = NewHeap
    /\ people = [i \in PersonIds |-> NewPerson(i)]
    /\ pending = [i \in PersonIds |-> NotPending]
    /\ acting = 0
    /\ provider = BaseAIProvider
    /\ users = {}
    /\ oauth_accounts = {}
    /\ requests = [r \in RequestIds |-> NoRequest]

ChatNext ==
    /\ ~chatOp.called
    /\ \E outcome \in ChatOutcomes :
          GenerateResponse(chatOp.user_input, chatOp.chat_history, outcome)

SpecChat == InitChat /\ [][ChatNext]_vars

\* the life of one persona: stimuli and ticks, trait and style elicitations
\* and chat turns in any order
LifeNext ==
    \/ Update(OneDelta, OneDelta, OneDelta)
    \/ Decay(OneRate)
    \/ \E outcome \in FewOutcomes("init_big_five_profile") : InitBigFiveProfile(outcome)
    \/ SetStyleExamples(OneExamples, ReturnsNone)
    \/ \E outcome \in FewOutcomes("set_style_examples") : SetStyleExamples(<<>>, outcome)
    \/ \E user_input \in {OneInput, LongInput}, chat_history \in {<<>>, OneHistory},
          outcome \in FewOutcomes("generate_response") \cup {ReturnsNone} :
          GenerateResponse(user_input, chat_history, outcome)

Spec == Init /\ [][LifeNext]_vars

\* p.mood.update(...) on person i
PairUpdate(i) ==
    \E self \in {Deref(heap, people, i)} :
        /\ heap' = HeapAfter(heap, people, i,
                             [self EXCEPT !.mood = update(self.mood, OneDelta,
                                                          OneDelta, OneDelta)])
        /\ acting' = i
        /\ UNCHANGED <<people, pending>>
        /\ UNCHANGED <<moodVars, profileVars, extractVars, styleVars, chatVars, factoryVars, authVars>>

\* p.mood.decay(...) on person i
PairDecay(i) ==
    \E self \in {Deref(heap, people, i)} :
        /\ heap' = HeapAfter(heap, people, i,
                             [self EXCEPT !.mood = decay(self.mood, OneRate)])
        /\ acting' = i
        /\ UNCHANGED <<people, pending>>
        /\ UNCHANGED <<moodVars, profileVars, extractVars, styleVars, chatVars, factoryVars, authVars>>

\* set_style_examples of person i with examples: it makes no call
PairSetStyle(i) ==
    \E after \in {set_style_examples(Deref(heap, people, i), OneExamples,
                                      ReturnsNone).self} :
        /\ heap' = HeapAfter(heap, people, i, after)
        /\ people' = PeopleAfter(people, i, after)
        /\ acting' = i
        /\ UNCHANGED pending
        /\ UNCHANGED <<moodVars, profileVars, extractVars, styleVars, chatVars, factoryVars, authVars>>

\* a method of person i that awaits the collaborator runs up to its await
\* (set_style_examples can raise before it)
PairBegin(i, op) ==
    /\ pending[i] = NotPending
    /\ pending' = IF op = "set_style_examples"
                     /\ set_style_examples(Deref(heap, people, i), <<>>,
                                           ReturnsNone).ncalls = 0
                  THEN pending
                  ELSE [pending EXCEPT ![i] = op]
    /\ acting' = i
    /\ UNCHANGED <<heap, people>>
    /\ UNCHANGED <<moodVars, profileVars, extractVars, styleVars, chatVars, factoryVars, authVars>>

\* the awaited call of person i comes back and its method runs to its end
PairComplete(i, outcome) ==
    /\ pending[i] # NotPending
    /\ \E after \in {Completed(Deref(heap, people, i), pending[i], outcome)} :
          /\ heap' = HeapAfter(heap, people, i, after)
          /\ people' = PeopleAfter(people, i, after)
    /\ pending' = [pending EXCEPT ![i] = NotPending]
    /\ acting' = i
    /\ UNCHANGED <<moodVars, profileVars, extractVars, styleVars, chatVars, factoryVars, authVars>>

PairNext ==
    \E i \in PersonIds :
        \/ PairUpdate(i)
        \/ PairDecay(i)
        \/ PairSetStyle(i)
        \/ \E op \in AwaitingOps : PairBegin(i, op)
        \/ \E outcome \in FewOutcomes(pending[i]) : PairComplete(i, outcome)

\* two persons, an original one and a non-original one
InitPair == Init /\ if_original = FALSE

SpecPair == InitPair /\ [][PairNext]_vars

\* Person(...): the constructor asks the factory for the shared provider
GetProvider(provider_type) ==
    \E got \in {get_provider(provider, provider_type)} :
        /\ provider' = got.instance
        /\ raised' = got.raised
        /\ call' = NoCall
        /\ UNCHANGED <<if_original, personality, source_work, keywords>>
        /\ UNCHANGED <<moodVars, extractVars, styleVars, chatVars, pairVars, authVars>>

\* the persona methods with the factory's provider as their collaborator
FactoryInitBigFiveProfile ==
    /\ provider # NoInstance
    /\ \E own \in ProviderResults(provider) :
        InitBigFiveProfile(await_generate_response(provider, ElicitationKwargs, own))

FactorySetStyleExamples(examples) ==
    /\ provider # NoInstance
    /\ \E own \in ProviderResults(provider) :
        SetStyleExamples(examples,
                         await_generate_response(provider, ElicitationKwargs, own))

FactoryGenerateResponse(user_input, chat_history) ==
    /\ provider # NoInstance
    /\ \E own \in ProviderResults(provider) :
        GenerateResponse(user_input, chat_history,
                         await_generate_response(
                             provider,
                             DOMAIN ChatCall(Self, user_input, chat_history),
                             own))

\* await ChatService().chat(message, history)
ServiceChat ==
    /\ provider # NoInstance
    /\ \E own \in ProviderResults(provider) :
        \E outcome \in {await_generate_response(provider, ServiceKwargs, own)} :
            /\ call' = [op |-> "ChatService.chat", prompt |-> "the message",
                        web_search |-> FALSE, outcome |-> outcome]
            /\ raised' = (outcome.kind = "raise")
            /\ UNCHANGED <<if_original, personality, source_work, keywords>>
            /\ UNCHANGED <<moodVars, extractVars, styleVars, chatVars, pairVars,
                           factoryVars, authVars>>

\* a process that builds personas and a chat service on the factory's
\* provider and uses them in any order
FactoryNext ==
    \/ \E provider_type \in ProviderTypes : GetProvider(provider_type)
    \/ FactoryInitBigFiveProfile
    \/ FactorySetStyleExamples(OneExamples)
    \/ FactorySetStyleExamples(<<>>)
    \/ \E user_input \in {OneInput, LongInput}, chat_history \in {<<>>, OneHistory} :
          FactoryGenerateResponse(user_input, chat_history)
    \/ ServiceChat

InitFactory ==
    /\ mood = EmotionalState
    /\ lastOp = "init"
    /\ lastRate = 0
    /\ if_original \in BOOLEAN
    /\ personality = BigFiveProfile
    /\ source_work = PyList(<<>>)
    /\ keywords = PyList(<<>>)
    /\ call = NoCall
    /\ raised = FALSE
    /\ text = <<>>
    /\ result = NotCalled
    /\ style_examples = StylePlaceholder
    /\ styleOp = NoStyleOp
    /\ chatOp = NoChatOp
    /\ heap = NewHeap
    /\ people = [i \in PersonIds |-> NewPerson(i)]
    /\ pending = [i \in PersonIds |-> NotPending]
    /\ acting = 0
    /\ provider = NoInstance
    /\ users = {}
    /\ oauth_accounts = {}
    /\ requests = [r \in RequestIds |-> NoRequest]

SpecFactory == InitFactory /\ [][FactoryNext]_vars

\* select(User).where(...) on the committed rows, then scalar_one_or_none()
UserById(id) ==
    scalar_one_or_none({u \in CommittedRows(users) : u.id = id}, NoUser).row
UserByEmail(email) ==
    scalar_one_or_none({u \in CommittedRows(users) : u.email = email}, NoUser).row

\* what an AuthManager call leaves alone
NotAuth ==
    UNCHANGED <<moodVars, profileVars, extractVars, styleVars, chatVars, pairVars,
                factoryVars>>

\* a request slot that can take a new request; the rows the requests in
\* progress may still insert are counted against MaxAccounts
Free(r) ==
    /\ requests[r].pc \in {"idle", "done"}
    /\ Cardinality(oauth_accounts)
         + Cardinality({q \in RequestIds : requests[q].pc \notin {"idle", "done"}})
       < MaxAccounts

\* _handle_oauth_login up to its second await: the lookup of the linked
\* account
HandleOAuthLogin(r, op, email, oauth_name, oauth_id, access_token) ==
    LET req == [NoRequest EXCEPT !.op = op, !.email = email, !.provider = oauth_name,
                                 !.oauth_id = oauth_id, !.access_token = access_token]
        found == scalar_one_or_none({a \in oauth_accounts :
                                        /\ a.oauth_name = oauth_name
                                        /\ a.oauth_id = oauth_id}, NoAccount)
    IN  /\ requests' =
               [requests EXCEPT ![r] =
                   IF found.raised
                   THEN Ended(req, NoUser, FALSE, "MultipleResultsFound")
                   ELSE IF found.row # NoAccount
                   THEN [req EXCEPT !.pc = "select_user_by_id",
                                    !.oauth_account = found.row,
                                    !.seen = UserById(found.row.user_id)]
                   ELSE [req EXCEPT !.pc = "select_user_by_email",
                                    !.seen = UserByEmail(email)]]
        /\ UNCHANGED <<users, oauth_accounts>>
        /\ NotAuth

\* await manager.authenticate_google(token), with what Google answers
AuthenticateGoogle(r, token, google_data) ==
    /\ Free(r)
    /\ IF ~google_data.ok \/ google_data.email = Missing \/ google_data.sub = Missing
       THEN /\ requests' = [requests EXCEPT ![r] =
                              Ended([NoRequest EXCEPT !.op = "google"], NoUser, FALSE, "400")]
            /\ UNCHANGED <<users, oauth_accounts>>
            /\ NotAuth
       ELSE HandleOAuthLogin(r, "google", google_data.email, "google",
                             google_data.sub, token)

\* await manager.authenticate_github(code): the mocked exchange
AuthenticateGithub(r) ==
    /\ Free(r)
    /\ HandleOAuthLogin(r, "github", MockGithubEmail, "github", MockGithubId,
                        MockGithubToken)


\* the linked account was found: load its user, and commit the new access
\* token when it differs.  A later SELECT of the same transaction reads the
\* row as it was when the transaction first read (seen: REPEATABLE READ,
\* the default of the database) or as it is committed now (READ COMMITTED)
SelectUserById(r) ==
    /\ requests[r].pc = "select_user_by_id"
    /\ \E user \in {requests[r].seen, UserById(requests[r].oauth_account.user_id)} :
         LET req == requests[r]
         IN  requests' =
               [requests EXCEPT ![r] =
                   IF req.oauth_account.access_token # req.access_token
                   THEN [req EXCEPT !.pc = "commit_token", !.user = user]
                   ELSE Ended(req, user, FALSE, OAuthResponse(user))]
    /\ UNCHANGED <<users, oauth_accounts>>
    /\ NotAuth

CommitToken(r) ==
    /\ requests[r].pc = "commit_token"
    /\ LET req == requests[r] IN
         /\ oauth_accounts' =
               {IF a.id = req.oauth_account.id
                THEN [a EXCEPT !.access_token = req.access_token] ELSE a
                : a \in oauth_accounts}
         /\ requests' = [requests EXCEPT ![r] =
                            Ended(req, req.user, TRUE, OAuthResponse(req.user))]
    /\ UNCHANGED users
    /\ NotAuth

\* no linked account: look the user up by email
SelectUserByEmail(r) ==
    /\ requests[r].pc = "select_user_by_email"
    /\ \E user \in {requests[r].seen, UserByEmail(requests[r].email)} :
         LET req == requests[r]
         IN  requests' =
               [requests EXCEPT ![r] =
                   IF user # NoUser
                   THEN [req EXCEPT !.pc = "commit_link", !.user = user]
                   ELSE [req EXCEPT !.pc = "flush_user"]]
    /\ UNCHANGED <<users, oauth_accounts>>
    /\ NotAuth

\* the user exists: link a new OAuth account to it
CommitLink(r) ==
    /\ requests[r].pc = "commit_link"
    /\ LET req == requests[r] IN
         /\ oauth_accounts' = oauth_accounts \cup
               {OAuthAccount(NewAccountId(oauth_accounts), req.user.id, req.provider,
                             req.oauth_id, req.access_token)}
         /\ requests' = [requests EXCEPT ![r] =
                            Ended(req, req.user, TRUE, OAuthResponse(req.user))]
    /\ UNCHANGED users
    /\ NotAuth

\* an INSERT into users waits while another transaction holds an
\* uncommitted row with the same email
EmailLocked(r, email) == \E u \in users : u.email = email /\ u.tx \notin {0, r}

\* no user: add one and flush; the unique index on email rejects a second
\* row (IntegrityError leaves the method, the session is closed)
FlushUser(r) ==
    /\ requests[r].pc = "flush_user"
    /\ ~EmailLocked(r, requests[r].email)
    /\ LET req == requests[r]
           user == User(NewUserId(users), req.email, NoPassword, TRUE, r)
       IN  IF \E u \in users : u.email = req.email
           THEN /\ requests' = [requests EXCEPT ![r] =
                                  Ended(req, NoUser, FALSE, "IntegrityError")]
                /\ UNCHANGED users
           ELSE /\ users' = users \cup {user}
                /\ requests' = [requests EXCEPT ![r] =
                                  [req EXCEPT !.pc = "commit_new", !.user = user]]
    /\ UNCHANGED oauth_accounts
    /\ NotAuth

\* add the OAuth account of the new user and commit both
CommitNew(r) ==
    /\ requests[r].pc = "commit_new"
    /\ LET req == requests[r] IN
         /\ users' = {IF u.tx = r THEN [u EXCEPT !.tx = 0] ELSE u : u \in users}
         /\ oauth_accounts' = oauth_accounts \cup
               {OAuthAccount(NewAccountId(oauth_accounts), req.user.id, req.provider,
                             req.oauth_id, req.access_token)}
         /\ requests' = [requests EXCEPT ![r] =
                            Ended(req, req.user, TRUE, OAuthResponse(req.user))]
    /\ NotAuth

\* await manager.register_email(user_in) up to its commit
RegisterEmail(r, email) ==
    /\ Free(r)
    /\ LET req == [NoRequest EXCEPT !.op = "register_email", !.email = email]
           existing_user == UserByEmail(email)
       IN  requests' =
             [requests EXCEPT ![r] =
                 IF existing_user # NoUser THEN Ended(req, NoUser, FALSE, "400")
                 ELSE [req EXCEPT !.pc = "commit_user"]]
    /\ UNCHANGED <<users, oauth_accounts>>
    /\ NotAuth

CommitUser(r) ==
    /\ requests[r].pc = "commit_user"
    /\ ~EmailLocked(r, requests[r].email)
    /\ LET req == requests[r]
           new_user == User(NewUserId(users), req.email, "hashed", TRUE, 0)
       IN  IF \E u \in users : u.email = req.email
           THEN /\ requests' = [requests EXCEPT ![r] =
                                  Ended(req, NoUser, FALSE, "IntegrityError")]
                /\ UNCHANGED users
           ELSE /\ users' = users \cup {new_user}
                /\ requests' = [requests EXCEPT ![r] = Ended(req, new_user, TRUE, "201")]
    /\ UNCHANGED oauth_accounts
    /\ NotAuth

\* await manager.login_email(user_in); verified is what verify_password
\* says of the password sent
LoginEmail(r, email, verified) ==
    /\ Free(r)
    /\ LET req == [NoRequest EXCEPT !.op = "login_email", !.email = email]
           user == UserByEmail(email)
       IN  requests' =
             [requests EXCEPT ![r] =
                 IF user = NoUser \/ user.hashed_password = NoPassword \/ ~verified
                 THEN Ended(req, NoUser, FALSE, "401")
                 ELSE Ended(req, user, FALSE, "token")]
    /\ UNCHANGED <<users, oauth_accounts>>
    /\ NotAuth

\* an administrator clears users.is_active of a user
Deactivate(id) ==
    /\ \E u \in CommittedRows(users) : u.id = id /\ u.is_active
    /\ users' = {IF u.id = id THEN [u EXCEPT !.is_active = FALSE] ELSE u : u \in users}
    /\ UNCHANGED <<oauth_accounts, requests>>
    /\ NotAuth

AuthNext ==
    \/ \E r \in RequestIds :
          \/ \E token \in GoogleTokens, google_data \in GoogleData :
                AuthenticateGoogle(r, token, google_data)
          \/ AuthenticateGithub(r)
          \/ SelectUserById(r)
          \/ CommitToken(r)
          \/ SelectUserByEmail(r)
          \/ CommitLink(r)
          \/ FlushUser(r)
          \/ CommitNew(r)
          \/ \E email \in Emails : RegisterEmail(r, email)
          \/ CommitUser(r)
          \/ \E email \in Emails, verified \in BOOLEAN : LoginEmail(r, email, verified)
    \/ \E id \in 1..Cardinality(Emails) : Deactivate(id)

InitAuth == Init /\ if_original = FALSE

SpecAuth == InitAuth /\ [][AuthNext]_vars


InRange(m) == /\ -One <= m.pleasure /\ m.pleasure <= One
              /\ -One <= m.arousal /\ m.arousal <= One
              /\ -One <= m.dominance /\ m.dominance <= One

\* ------------------------------------------------------------------------
\* Claims about the mood
\* ------------------------------------------------------------------------

\* C1: after every update (apply_stimulus) call, whatever the deltas and
\* whatever the mood before it, pleasure, arousal and dominance are each
\* within [-1.0, 1.0].
C1_ClampAfterUpdate == lastOp = "update" => InRange(mood)

\* an update with an overshooting delta has saturated two fields
C1_Witness == /\ lastOp = "update"
              /\ mood.pleasure = One
              /\ mood.arousal = -One

\* C2: after every mutation of the mood (update or decay with any accepted
\* rate), pleasure, arousal and dominance are each within [-1.0, 1.0].
C2_AlwaysInRange == InRange(mood)

StrictShrink(old, new) == IF old = 0 THEN new = 0 ELSE Abs(new) < Abs(old)
NoGrow(old, new) == Abs(new) <= Abs(old)
NoFlip(old, new) == /\ (old > 0 => new >= 0)
                    /\ (old < 0 => new <= 0)
                    /\ (old = 0 => new = 0)

RateIn01(r) == 0 < r /\ r < One

\* C3 as stated: for a rate strictly between 0 and 1 one decay strictly
\* reduces |pleasure| and |arousal| unless the field is 0, and flips no sign.
C3_StrictDecay ==
    [][(lastOp' = "decay" /\ RateIn01(lastRate')) =>
          /\ StrictShrink(mood.pleasure, mood'.pleasure)
          /\ StrictShrink(mood.arousal, mood'.arousal)
          /\ NoFlip(mood.pleasure, mood'.pleasure)
          /\ NoFlip(mood.arousal, mood'.arousal)
          /\ NoFlip(mood.dominance, mood'.dominance)]_vars

\* x * (1 - r / k) is a representable value and so is the factor 1 - r / k
ExactScale(x, r, k) ==
    /\ r % k = 0
    /\ Representable(r \div k)
    /\ Representable(One - (r \div k))
    /\ (x * (One - (r \div k))) % One = 0
    /\ Representable((x * (One - (r \div k))) \div One)

\* C3 (amended): for a rate strictly between 0 and 1 one decay never
\* increases |pleasure|, |arousal| or |dominance| and flips no sign; where
\* the factor and the product are representable without rounding, pleasure
\* and arousal become exactly field * (1 - rate), hence strictly smaller in
\* magnitude unless 0, and dominance becomes exactly field * (1 - rate / 2).
C3_DecayMonotone ==
    [][(lastOp' = "decay" /\ RateIn01(lastRate')) =>
          /\ NoGrow(mood.pleasure, mood'.pleasure)
          /\ NoGrow(mood.arousal, mood'.arousal)
          /\ NoGrow(mood.dominance, mood'.dominance)
          /\ NoFlip(mood.pleasure, mood'.pleasure)
          /\ NoFlip(mood.arousal, mood'.arousal)
          /\ NoFlip(mood.dominance, mood'.dominance)
          /\ (ExactScale(mood.pleasure, lastRate', 1) =>
                 /\ mood'.pleasure * One = mood.pleasure * (One - lastRate')
                 /\ StrictShrink(mood.pleasure, mood'.pleasure))
          /\ (ExactScale(mood.arousal, lastRate', 1) =>
                 /\ mood'.arousal * One = mood.arousal * (One - lastRate')
                 /\ StrictShrink(mood.arousal, mood'.arousal))
          /\ (ExactScale(mood.dominance, lastRate', 2) =>
                 mood'.dominance * 2 * One = mood.dominance * (2 * One - lastRate'))]_vars

\* a decay at rate 0.5 has left a mood whose pleasure is 0.5 and whose
\* dominance is 0.75
C3_Witness == /\ lastOp = "decay"
              /\ lastRate = Half
              /\ mood.pleasure = Half
              /\ mood.dominance = 3 * (One \div 4)

\* the decision list of the claim: rules tried top to bottom, first match wins
RuleMatches(i, P, A, D) ==
    CASE i = 1 -> A < 0 /\ P > 0
      [] i = 2 -> A < 0 /\ P < 0
      [] i = 3 -> A > 0 /\ P > Half /\ D > 0
      [] i = 4 -> A > 0 /\ P > P02 /\ D > 0
      [] i = 5 -> A > 0 /\ P < -Half /\ D > 0
      [] i = 6 -> A > 0 /\ P < -Half /\ D < 0
      [] i = 7 -> A > 0 /\ P < 0
      [] OTHER -> TRUE
RuleLabel == <<"Relaxed", "Bored/Depressed", "Joyful", "Excited", "Angry",
               "Fearful", "Anxious", "Neutral">>
FirstMatch(P, A, D) == CHOOSE i \in 1..8 :
    /\ RuleMatches(i, P, A, D)
    /\ \A j \in 1..(i - 1) : ~RuleMatches(j, P, A, D)

\* C4: get_mood_label returns the label of the first matching rule of the
\* 8-rule list; a mood with arousal 0 is Neutral; a mood with pleasure below
\* -0.5, positive arousal and positive dominance is Angry, not Anxious.
C4_LabelIsFirstMatch ==
    /\ get_mood_label(mood) = RuleLabel[FirstMatch(mood.pleasure, mood.arousal, mood.dominance)]
    /\ (mood.arousal = 0 => get_mood_label(mood) = "Neutral")
    /\ (mood.pleasure < -Half /\ mood.arousal > 0 /\ mood.dominance > 0
          => get_mood_label(mood) = "Angry")

\* a mood that matches both the Angry rule and the later Anxious rule
C4_Witness == /\ mood.pleasure = -3 * (One \div 4)
              /\ mood.arousal = Half
              /\ mood.dominance = One \div 4
              /\ get_mood_label(mood) = "Angry"

\* ------------------------------------------------------------------------
\* Claims about the trait elicitation
\* ------------------------------------------------------------------------
InitCalled(c) == c.op = "init_big_five_profile"

\* the collaborator returned nothing, or an empty text
AbsentOrEmpty(outcome) ==
    outcome.kind = "none" \/ (outcome.kind = "text" /\ outcome.text = <<>>)

\* the collaborator returned a text from which the extractor recovers nothing
NoStructure(outcome) ==
    /\ outcome.kind = "text"
    /\ outcome.text # <<>>
    /\ _extract_json_from_text(outcome.text) = ExtractNone

\* C5: when the answer to the trait elicitation is absent, empty or yields no
\* extractable structure, the five trait scalars and the trait labels are
\* after the call what they were before it, and no exception propagates.
C5_UnusableAnswerKeepsProfile ==
    [][(InitCalled(call') /\ (AbsentOrEmpty(call'.outcome) \/ NoStructure(call'.outcome)))
          => (personality' = personality /\ raised' = FALSE)]_vars

HasKey(d, key) == \E i \in 1..Len(d.items) : d.items[i].key = key

\* the mapping an answer stands for: the extracted value, the empty mapping
\* when nothing was extracted
AnswerMapping(outcome) ==
    LET ex == _extract_json_from_text(outcome.text) IN
    IF ex.st = "raise" THEN PyNone
    ELSE IF Falsy(ex.v) THEN PyDict(<<>>) ELSE ex.v

ValueOr(d, key, default) == IF HasKey(d, key) THEN DictGet(d, key, default) ELSE default

\* every field of the persona is the one the mapping d gives
AllFrom(d, p, sw, kw) ==
    /\ d.t = "dict"
    /\ \A i \in 1..Len(TraitKeys) :
          LET v == ValueOr(d, TraitKeys[i], PyNum(Half)) IN
          v.t = "num" /\ p[TraitKeys[i]] = PyMin(One, PyMax(0, v.n))
    /\ p.traits = ValueOr(d, "traits", PyList(<<>>))
    /\ sw = ValueOr(d, "source_work", PyList(<<>>))
    /\ kw = ValueOr(d, "keywords", PyList(<<>>))

\* C6: init_big_five_profile is all-or-nothing: after the call the scalars,
\* labels, source_work and keywords are either all unchanged or all taken
\* from the answer, never a mixture of new and old fields.
C6_AllOrNothing ==
    [][InitCalled(call') =>
          \/ /\ personality' = personality
             /\ source_work' = source_work
             /\ keywords' = keywords
          \/ /\ call'.outcome.kind = "text"
             /\ AllFrom(AnswerMapping(call'.outcome), personality', source_work', keywords')]_vars

\* C7: every one of the five trait scalars is within [0.0, 1.0] after any
\* sequence of init_big_five_profile calls, whatever the answers.
C7_TraitsInRange ==
    \A i \in 1..Len(TraitKeys) :
        0 <= personality[TraitKeys[i]] /\ personality[TraitKeys[i]] <= One

\* an answer held a value above 1 for openness and one below 0 for neuroticism
C7_Witness ==
    /\ InitCalled(call)
    /\ call.outcome.kind = "text"
    /\ LET d == AnswerMapping(call.outcome) IN
         /\ d.t = "dict"
         /\ ValueOr(d, "openness", PyNum(Half)).t = "num"
         /\ ValueOr(d, "openness", PyNum(Half)).n > One
         /\ ValueOr(d, "neuroticism", PyNum(Half)).t = "num"
         /\ ValueOr(d, "neuroticism", PyNum(Half)).n < 0
    /\ personality.openness = One
    /\ personality.neuroticism = 0

\* the answer extracts to a mapping whose trait values are all numbers
NumericMapping(outcome) ==
    /\ outcome.kind = "text"
    /\ outcome.text # <<>>
    /\ LET ex == _extract_json_from_text(outcome.text) IN
         /\ ex.st = "value"
         /\ ex.v.t = "dict"
         /\ \A i \in 1..Len(TraitKeys) :
               ValueOr(ex.v, TraitKeys[i], PyNum(Half)).t = "num"

\* C8: after an answer that extracts to a mapping with numeric trait values,
\* each scalar is min(1, max(0, v)) with v the mapping's value, or 0.5 when
\* the key is missing, and each of traits, source_work and keywords whose key
\* is missing is the empty list.
C8_ClampAndDefaults ==
    (InitCalled(call) /\ NumericMapping(call.outcome)) =>
        LET d == _extract_json_from_text(call.outcome.text).v IN
        /\ \A i \in 1..Len(TraitKeys) :
              personality[TraitKeys[i]] =
                  PyMin(One, PyMax(0, IF HasKey(d, TraitKeys[i])
                                      THEN DictGet(d, TraitKeys[i], PyNone).n
                                      ELSE Half))
        /\ (~HasKey(d, "traits") => personality.traits = PyList(<<>>))
        /\ (~HasKey(d, "source_work") => source_work = PyList(<<>>))
        /\ (~HasKey(d, "keywords") => keywords = PyList(<<>>))

\* an answer with openness above 1, without neuroticism and without keywords
C8_Witness ==
    /\ InitCalled(call)
    /\ NumericMapping(call.outcome)
    /\ LET d == _extract_json_from_text(call.outcome.text).v IN
         /\ HasKey(d, "openness")
         /\ DictGet(d, "openness", PyNone).n > One
         /\ ~HasKey(d, "neuroticism")
         /\ HasKey(d, "traits")
         /\ ~HasKey(d, "keywords")
    /\ personality.openness = One
    /\ personality.neuroticism = Half
    /\ personality.traits # PyList(<<>>)
    /\ keywords = PyList(<<>>)

\* C9: the trait elicitation passes web_search = false for an original
\* persona and web_search = true for a non-original one.
C9_WebSearchFollowsGrounding ==
    InitCalled(call) => (call.web_search = ~if_original)

\* ------------------------------------------------------------------------
\* Claims about the extractor
\* ------------------------------------------------------------------------
HasToken(t, kinds) == \E i \in 1..Len(t) : t[i].k \in kinds

\* C10: for any text _extract_json_from_text returns a parsed value or None
\* and never raises; a text with no '[' , no '{' and no json fence yields
\* None.
C10_ExtractNeverRaises ==
    result # NotCalled =>
        /\ result.st = "value"
        /\ (~HasToken(text, {"[", "[[[[", "{", "fence_json"}) => result = ExtractNone)

\* the bracket-scan stage alone: the span from the first opener to the last
\* closer of its kind, parsed
BracketScanValue(t) ==
    LET start_bracket == find(t, "[")
        start_brace == find(t, "{")
        useList == start_bracket # NotFound
                   /\ (start_brace = NotFound \/ start_bracket < start_brace)
        from == IF useList THEN start_bracket ELSE start_brace
        to == IF useList THEN rfind(t, "]") ELSE rfind(t, "}")
    IN  IF from = NotFound \/ to = NotFound \/ to <= from THEN ExtractNone
        ELSE LoadsInTry(SubSeq(t, from + 1, to + 1))

FenceParses(t) ==
    /\ re_search_fence(t).found
    /\ json_loads(re_search_fence(t).group1).st = "ok"

\* C11: the fenced-block stage is tried first and its value is returned when
\* its interior parses; whenever that stage yields no parsed value (no
\* fence, or a fence with a malformed interior) the bracket-scan stage is
\* tried and its value is the result.
C11_FirstSuccessWins ==
    (result # NotCalled /\ result.st = "value") =>
        IF FenceParses(text)
        THEN result = ExtractValue(json_loads(re_search_fence(text).group1).v)
        ELSE result = BracketScanValue(text)

\* the 1-based positions of the tokens of the given kinds
Positions(t, kinds) == {i \in 1..Len(t) : t[i].k \in kinds}
Least(S) == CHOOSE x \in S : \A y \in S : x <= y
Greatest(S) == CHOOSE x \in S : \A y \in S : x >= y
Openers == {"[", "[[[[", "{"}
CloserOf(opener) == IF opener = "{" THEN "}" ELSE "]"

\* C21: in the bracket-scan stage (no json fence in the text) the target
\* type is that of the earliest '[' or '{'; the end is the last occurrence
\* in the whole text of that type's closer, whatever closers of the other
\* type there are; the span from the opener to that closer is parsed when
\* the closer lies after the opener, and otherwise the result is None.
C21_ScanSpan ==
    (result # NotCalled /\ ~re_search_fence(text).found) =>
        LET opens == Positions(text, Openers) IN
        IF opens = {} THEN result = ExtractNone
        ELSE LET start == Least(opens)
                 closes == Positions(text, {CloserOf(text[start].k)})
             IN  IF closes = {} \/ Greatest(closes) <= start
                 THEN result = ExtractNone
                 ELSE result = LoadsInTry(SubSeq(text, start, Greatest(closes)))

\* a list span that ends at the last ']' although a '}' follows it
C21_Witness ==
    /\ text = <<LBRACKET, NumTok(One), RBRACKET, RBRACE>>
    /\ result = ExtractValue(PyList(<<PyNum(One)>>))

\* ------------------------------------------------------------------------
\* Claims about the style corpus
\* ------------------------------------------------------------------------

\* C12: before the first set_style_examples call and after any sequence of
\* them, with any examples argument and any collaborator outcome, the style
\* corpus is not the empty string.
C12_CorpusNeverEmpty == style_examples # <<>>

\* the last set_style_examples call had no examples and its collaborator
\* call came back, with a value or with an exception
StyleAnswered ==
    /\ styleOp.called
    /\ styleOp.examples = <<>>
    /\ styleOp.ncalls = 1
    /\ styleOp.outcome.kind # "cancelled"

\* the list extracted from the answer, empty when there is none
ExtractedList(outcome) ==
    IF outcome.kind # "text" \/ outcome.text = <<>> THEN <<>>
    ELSE LET ex == _extract_json_from_text(outcome.text) IN
         IF ex.st = "value" /\ ex.v.t = "list" THEN ex.v.items ELSE <<>>

HasDialogue(item) ==
    item.t = "dict" /\ ~Falsy(DictGet(item, "dialogue", PyStr("")))

\* C13: after set_style_examples([]) whose collaborator call came back, in
\* either branch, the corpus is the "; "-join, in answer order, of
\* "[mood] dialogue (tone)" for exactly the mapping entries of the
\* extracted list that have a non-empty dialogue; it is the placeholder when
\* there is no such entry (nothing returned, an exception, an unparseable
\* answer, an answer that is no list).
C13_CorpusFromAnswer ==
    StyleAnswered =>
        LET kept == SelectSeq(ExtractedList(styleOp.outcome), HasDialogue) IN
        style_examples =
            IF kept = <<>> THEN StylePlaceholder
            ELSE join(<<"; ">>, [i \in 1..Len(kept) |-> FormatExample(kept[i])])

\* a non-original persona whose answer had two entries with a dialogue,
\* different ones, and whose corpus holds both
C13_Witness ==
    /\ StyleAnswered
    /\ ~if_original
    /\ LET l == ExtractedList(styleOp.outcome) IN
         /\ Len(l) = 2
         /\ HasDialogue(l[1]) /\ HasDialogue(l[2])
         /\ l[1] # l[2]
         /\ style_examples = FormatExample(l[1]) \o <<"; ">> \o FormatExample(l[2])

\* C14: set_style_examples with a non-empty examples list makes no
\* collaborator call and sets the corpus to the examples joined in order;
\* with an empty list it makes exactly one collaborator call, with
\* web_search false for an original persona and true otherwise.
C14_CallsFollowExamples ==
    styleOp.called =>
        IF styleOp.examples # <<>>
        THEN /\ styleOp.ncalls = 0
             /\ style_examples = join(<<"; ">>, styleOp.examples)
        ELSE /\ styleOp.ncalls = 1
             /\ styleOp.web_search = ~if_original

\* C20: no exception leaves init_big_five_profile or set_style_examples([])
\* whatever the collaborator does (an exception, no answer, an error text,
\* an unparseable text, JSON of the wrong shape or with wrongly typed
\* values); the cancellation of the awaiting task is no outcome of the
\* collaborator and is left out.
C20_DerivationNeverRaises ==
    raised => \/ (InitCalled(call) /\ call.outcome.kind = "cancelled")
              \/ (styleOp.called /\ styleOp.ncalls = 1
                  /\ styleOp.outcome.kind = "cancelled")

\* ------------------------------------------------------------------------
\* Claims about the chat turn
\* ------------------------------------------------------------------------
NotSystem(msg) == msg.role # "system"

\* the history sent with the last chat turn
SentHistory == chatOp.calls[1].history

\* C15: the history that generate_response passes to the collaborator is
\* the input history without its entries of role system, in the same
\* order, each with its content, and with its role unless that is model,
\* which becomes assistant; no entry of role system or model is passed.
C15_HistoryNormalized ==
    chatOp.called =>
        LET kept == SelectSeq(chatOp.chat_history, NotSystem) IN
        /\ Len(SentHistory) = Len(kept)
        /\ \A i \in 1..Len(kept) :
              /\ SentHistory[i].content = kept[i].content
              /\ SentHistory[i].role =
                    IF kept[i].role = "model" THEN "assistant" ELSE kept[i].role
        /\ \A i \in 1..Len(SentHistory) :
              SentHistory[i].role \notin {"system", "model"}

\* a history with a system entry between a model entry and a user entry
C15_Witness ==
    /\ chatOp.called
    /\ Len(chatOp.chat_history) = 3
    /\ chatOp.chat_history[1].role = "model"
    /\ chatOp.chat_history[2].role = "system"
    /\ chatOp.chat_history[3].role = "user"
    /\ chatOp.chat_history[1].content # chatOp.chat_history[3].content
    /\ Len(SentHistory) = 2
    /\ SentHistory[1].role = "assistant"

\* C16: a chat turn makes exactly one collaborator call; its prompt is the
\* user input unchanged, its history has as many entries as the input
\* history has entries that are not of role system (the user input is not
\* appended), its system_instruction is the system prompt followed by the
\* reinforcement block of this turn, and its web_search is false.
C16_ChatCallShape ==
    chatOp.called =>
        /\ Len(chatOp.calls) = 1
        /\ chatOp.calls[1].prompt = chatOp.user_input
        /\ Len(chatOp.calls[1].history) = Len(SelectSeq(chatOp.chat_history, NotSystem))
        /\ chatOp.calls[1].system_instruction =
              <<set_basic_assistance_prompt(Self),
                get_reinforcement_block(Self, chatOp.user_input)>>
        /\ chatOp.calls[1].web_search = FALSE

\* a turn with a user input longer than the snippet and a history that
\* ends with a user entry
C16_Witness ==
    /\ chatOp.called
    /\ Len(chatOp.user_input) > SnippetLen
    /\ Len(chatOp.chat_history) = 2
    /\ chatOp.chat_history[1].role = "system"
    /\ chatOp.chat_history[2].role = "user"
    /\ Len(chatOp.calls) = 1
    /\ Len(chatOp.calls[1].history) = 1
    /\ chatOp.outcome.kind = "text"

\* the input snippet inside the reinforcement block sent by the last turn
SentSnippet == chatOp.calls[1].system_instruction[2].user_input_snippet

\* C22: the input snippet of the reinforcement block is the user input
\* unchanged when the input has at most 50 characters (exactly 50
\* included) and its first 50 characters followed by the three-character
\* ellipsis when it has more; it never has more than 53 characters and
\* differs from the input only when the input was truncated.
C22_SnippetTruncation ==
    chatOp.called =>
        LET input == chatOp.user_input IN
        /\ Len(input) <= 50 => SentSnippet = input
        /\ Len(input) > 50 =>
              /\ Len(SentSnippet) = 53
              /\ \A i \in 1..50 : SentSnippet[i] = input[i]
              /\ \A i \in 51..53 : SentSnippet[i] = "."
        /\ Len(SentSnippet) <= 53
        /\ SentSnippet # input => Len(input) > 50

\* a turn whose input has 51 characters and whose snippet has 53
C22_Witness ==
    /\ chatOp.called
    /\ Len(chatOp.user_input) = 51
    /\ Len(SentSnippet) = 53
    /\ SentSnippet[53] = "."

\* ------------------------------------------------------------------------
\* Claims about the factory's providers
\* ------------------------------------------------------------------------
FactoryProviders == {GeminiProvider, OpenAIProvider}

\* C23: every provider the factory can return honours the collaborator
\* contract (keywords prompt, history, system_instruction and web_search,
\* awaited for a text or None): a trait elicitation and a chat turn of a
\* persona built on it end with a collaborator result (a text or None) and
\* not with a failure of the call itself.
C23_FactoryProvidersHonourContract ==
    (/\ provider \in FactoryProviders
     /\ call.op \in {"init_big_five_profile", "generate_response"}) =>
        call.outcome.kind \in {"text", "none"}

\* ------------------------------------------------------------------------
\* Claims about the logins
\* ------------------------------------------------------------------------

\* C24: after any interleaving of concurrent _handle_oauth_login calls
\* there is at most one OAuthAccount row per (provider, oauth_id) pair and
\* at most one User per email, and no login's single-row lookup meets
\* several rows.
C24_OneRowPerIdentity ==
    /\ \A a, b \in oauth_accounts :
          (a.oauth_name = b.oauth_name /\ a.oauth_id = b.oauth_id) => a = b
    /\ \A u, v \in users : u.email = v.email => u = v
    /\ \A r \in RequestIds : requests[r].response # "MultipleResultsFound"

Rejections == {"400", "401", "500", "IntegrityError", "MultipleResultsFound"}

\* C25: no login, by email and password or through Google or GitHub,
\* answers with an access token for a user it loaded with is_active false,
\* and a login that was rejected has committed nothing to users or
\* oauth_accounts.
C25_LoginsRespectActiveFlag ==
    \A r \in RequestIds :
        /\ requests[r].response = "token" => requests[r].user.is_active
        /\ requests[r].response \in Rejections => ~requests[r].wrote

\* ------------------------------------------------------------------------
\* Claims about what the operations leave alone
\* ------------------------------------------------------------------------

\* C17: a chat turn, whatever its input, its history and the outcome of
\* its collaborator call (a text, None, an exception), leaves the trait
\* profile, the mood, the style corpus and the provenance lists as they
\* were.
C17_ChatChangesNothing ==
    [][(chatOp' # chatOp) =>
           /\ personality' = personality
           /\ mood' = mood
           /\ style_examples' = style_examples
           /\ source_work' = source_work
           /\ keywords' = keywords]_vars

\* a chat turn whose call raised, on a persona with elicited traits, a
\* style corpus of its own and a moved mood
C17_Witness ==
    /\ chatOp.called
    /\ call.op = "generate_response"
    /\ call.outcome.kind = "raise"
    /\ raised
    /\ personality.openness # Half
    /\ source_work # PyList(<<>>)
    /\ style_examples # StylePlaceholder
    /\ mood.pleasure = One

\* C18: update and decay, in whatever state of its life the persona is,
\* change nothing but pleasure, arousal and dominance: the trait scalars
\* and labels, the provenance lists, the style corpus and the mood's energy
\* stay, and energy is 1.0 after them.
C18_MoodOpsTouchOnlyPAD ==
    [][(moodVars' # moodVars) =>
           /\ personality' = personality
           /\ source_work' = source_work
           /\ keywords' = keywords
           /\ style_examples' = style_examples
           /\ mood'.energy = mood.energy
           /\ mood'.energy = One]_vars

\* a tick on a persona whose traits and style have been elicited and that
\* has chatted
C18_Witness ==
    /\ lastOp = "decay"
    /\ mood.dominance = Half
    /\ mood.energy = One
    /\ personality.openness # Half
    /\ style_examples \notin {StylePlaceholder, join(<<"; ">>, OneExamples)}
    /\ chatOp.called

\* C19: a step of a method of one person, the steps before and after a
\* suspension at the collaborator call included, leaves the other
\* person's trait profile, mood, style corpus and provenance lists as they
\* were.
C19_PersonsIndependent ==
    [][\A i \in PersonIds :
           (acting' # i) => Deref(heap', people', i) = Deref(heap, people, i)]_vars

\* the first person has just acted while the second is suspended in its
\* style elicitation; each has a state of its own
C19_Witness ==
    /\ acting = 1
    /\ pending[2] = "set_style_examples"
    /\ pending[1] = "generate_response"
    /\ Deref(heap, people, 1).mood.pleasure = One
    /\ Deref(heap, people, 2).mood.pleasure = 0
    /\ Deref(heap, people, 1).personality.openness = Half
    /\ Deref(heap, people, 2).personality.openness # Half
    /\ Deref(heap, people, 1).style_examples # StylePlaceholder
    /\ Deref(heap, people, 2).style_examples = StylePlaceholder
====
